---- MODULE Spec2Model ----
(***************************************************************************)
(* virsh-sendkeys: text typed by the operator is translated, character by  *)
(* character, into virsh send-key invocations against a libvirt domain.  *)
(*                                                                         *)
(* Python strings are modelled as sequences of code points (naturals); a   *)
(* one-character string is its code point.  Lists are sequences, dicts are *)
(* functions, Optional values are records with an isNone field.            *)
(***************************************************************************)
EXTENDS Integers, Sequences, FiniteSets, TLC

(***************************************************************************)
(* Characters and strings                                                  *)
(***************************************************************************)

\* Printable ASCII, code points 32..126, in code point order (the grave
\* accent, code point 96, is spelled "backtick").
CharTable ==
    << " ", "!", "\"", "#", "$", "%", "&", "'", "(", ")", "*", "+", ",", "-", ".", "/",
       "0", "1", "2", "3", "4", "5", "6", "7", "8", "9", ":", ";", "<", "=", ">", "?",
       "@", "A", "B", "C", "D", "E", "F", "G", "H", "I", "J", "K", "L", "M", "N", "O",
       "P", "Q", "R", "S", "T", "U", "V", "W", "X", "Y", "Z", "[", "\\", "]", "^", "_",
       "backtick", "a", "b", "c", "d", "e", "f", "g", "h", "i", "j", "k", "l", "m", "n", "o",
       "p", "q", "r", "s", "t", "u", "v", "w", "x", "y", "z", "{", "|", "}", "~" >>

\* The code point of every character literal in use.
OrdTable ==
    [c \in {CharTable[i] : i \in 1..Len(CharTable)} \cup {"\t", "\n", "\r"} |->
        CASE c = "\t" -> 9
          [] c = "\n" -> 10
          [] c = "\r" -> 13
          [] OTHER -> 31 + (CHOOSE i \in 1..Len(CharTable) : CharTable[i] = c)]

\* ord(c) of a one-character literal.
Ord(c) == OrdTable[c]

\* A string literal, written as the tuple of its characters.
Chars(cs) == [i \in 1..Len(cs) |-> Ord(cs[i])]

\* Optional[T] of Python.
NoneVal == [isNone |-> TRUE, val |-> <<>>]
Some(v) == [isNone |-> FALSE, val |-> v]

\* A test that takes every lookup result for a key sequence.
TruthyAlways(opt) == TRUE

\* Truth value of an Optional[list]: None and [] are falsy.
Truthy(opt) == (~opt.isNone) /\ Len(opt.val) > 0

\* str.isspace() of one character, for the code points below 256.
IsSpace(c) == c \in {9, 10, 11, 12, 13, 28, 29, 30, 31, 32, 133, 160}

\* The line boundaries of str.splitlines(), for the code points below 256.
IsLineBreak(c) == c \in {10, 11, 12, 13, 28, 29, 30, 133}

RECURSIVE LStrip(_)
LStrip(s) == IF s # <<>> /\ IsSpace(Head(s)) THEN LStrip(Tail(s)) ELSE s

RECURSIVE RStrip(_)
RStrip(s) ==
    IF s # <<>> /\ IsSpace(s[Len(s)]) THEN RStrip(SubSeq(s, 1, Len(s) - 1)) ELSE s

\* str.strip()
Strip(s) == RStrip(LStrip(s))

\* str.split(): the maximal runs of non-whitespace characters, in order.
RECURSIVE SplitFrom(_, _, _)
SplitFrom(s, cur, acc) ==
    IF s = <<>> THEN (IF cur = <<>> THEN acc ELSE Append(acc, cur))
    ELSE IF IsSpace(Head(s))
         THEN SplitFrom(Tail(s), <<>>, IF cur = <<>> THEN acc ELSE Append(acc, cur))
         ELSE SplitFrom(Tail(s), Append(cur, Head(s)), acc)

Split(s) == SplitFrom(s, <<>>, <<>>)

\* str.splitlines(): lines without their terminators; "\r\n" is one
\* terminator; a terminator at the very end opens no further line.
RECURSIVE SplitLinesFrom(_, _, _)
SplitLinesFrom(s, cur, acc) ==
    IF s = <<>> THEN (IF cur = <<>> THEN acc ELSE Append(acc, cur))
    ELSE IF IsLineBreak(Head(s))
         THEN IF Head(s) = 13 /\ Len(s) > 1 /\ s[2] = 10
              THEN SplitLinesFrom(Tail(Tail(s)), <<>>, Append(acc, cur))
              ELSE SplitLinesFrom(Tail(s), <<>>, Append(acc, cur))
         ELSE SplitLinesFrom(Tail(s), Append(cur, Head(s)), acc)

SplitLines(s) == SplitLinesFrom(s, <<>>, <<>>)

\* The digit characters "0".."9" (ASCII).
IsAsciiDigit(c) == c \in Ord("0")..Ord("9")

\* str.isdigit(): non-empty and every character has the Unicode property
\* Digit; among the modelled code points these are the ASCII digits and the
\* superscripts two, three and one.
IsDigitChar(c) == IsAsciiDigit(c) \/ c \in {178, 179, 185}
IsDigit(s) == s # <<>> /\ \A i \in 1..Len(s) : IsDigitChar(s[i])

\* Value of a string of ASCII digits.
RECURSIVE DigitsValue(_)
DigitsValue(s) ==
    IF s = <<>> THEN 0
    ELSE 10 * DigitsValue(SubSeq(s, 1, Len(s) - 1)) + (s[Len(s)] - Ord("0"))

\* The whitespace int() drops around a numeral, for the code points below
\* 256: the ASCII blanks and, of the others, those of str.isspace() (the
\* separators 28..31 are whitespace to str.strip() and not to int()).
IsIntSpace(c) == c \in {9, 10, 11, 12, 13, 32, 133, 160}

RECURSIVE IntLStrip(_)
IntLStrip(s) == IF s # <<>> /\ IsIntSpace(Head(s)) THEN IntLStrip(Tail(s)) ELSE s

RECURSIVE IntRStrip(_)
IntRStrip(s) ==
    IF s # <<>> /\ IsIntSpace(s[Len(s)]) THEN IntRStrip(SubSeq(s, 1, Len(s) - 1)) ELSE s

\* The digits of a numeral body: ASCII digits, with single underscores
\* allowed between two digits ("1_0" is 10; "_1", "1_" and "1__0" are not
\* numerals).
IsUnderscore(c) == c = Ord("_")
IsIntBody(b) ==
    /\ b # <<>>
    /\ \A i \in 1..Len(b) : IsAsciiDigit(b[i]) \/ IsUnderscore(b[i])
    /\ IsAsciiDigit(b[1]) /\ IsAsciiDigit(b[Len(b)])
    /\ \A i \in 1..(Len(b) - 1) : ~(IsUnderscore(b[i]) /\ IsUnderscore(b[i + 1]))

\* int(s) of a string of code points below 256: surrounding whitespace is
\* dropped, one sign is allowed, the rest must be decimal digits, which
\* single underscores may group; anything else raises ValueError.
IntParse(s) ==
    LET t == IntRStrip(IntLStrip(s))
        signed == t # <<>> /\ Head(t) \in {Ord("+"), Ord("-")}
        body == IF signed THEN Tail(t) ELSE t
        digits == SelectSeq(body, IsAsciiDigit)
    IN  IF IsIntBody(body)
        THEN [kind |-> "return",
              val |-> IF signed /\ Head(t) = Ord("-")
                      THEN 0 - DigitsValue(digits) ELSE DigitsValue(digits)]
        ELSE [kind |-> "raise", val |-> "ValueError"]

\* str(n) of an int.
RECURSIVE NatStr(_)
NatStr(n) ==
    IF n < 10 THEN <<Ord("0") + n>> ELSE NatStr(n \div 10) \o <<Ord("0") + (n % 10)>>

Str(n) == IF n < 0 THEN <<Ord("-")>> \o NatStr(0 - n) ELSE NatStr(n)

\* format(n, "x") of a non-negative int.
HexDigits == Chars(<<"0", "1", "2", "3", "4", "5", "6", "7", "8", "9",
                     "a", "b", "c", "d", "e", "f">>)

RECURSIVE HexStr(_)
HexStr(n) ==
    IF n < 16 THEN <<HexDigits[n + 1]>> ELSE HexStr(n \div 16) \o <<HexDigits[(n % 16) + 1]>>

\* f"0x{n:02x}"
Format0x02x(n) ==
    Chars(<<"0", "x">>) \o (IF Len(HexStr(n)) < 2 THEN <<Ord("0")>> ELSE <<>>) \o HexStr(n)

\* {**d1, **d2}: the later mapping wins on a shared key.
Merge(d1, d2) ==
    [k \in (DOMAIN d1) \cup (DOMAIN d2) |-> IF k \in DOMAIN d2 THEN d2[k] ELSE d1[k]]

\* dict.get(key): the value, or None.
DictGet(d, k) == IF k \in DOMAIN d THEN Some(d[k]) ELSE NoneVal

\* A dict literal or comprehension, as the sequence of its (key, value)
\* items in evaluation order: the last item of a key wins.
DictOf(items) ==
    [k \in {items[i][1] : i \in 1..Len(items)} |->
        items[CHOOSE i \in 1..Len(items) :
                  items[i][1] = k /\ \A j \in (i + 1)..Len(items) : items[j][1] # k][2]]

(***************************************************************************)
(* Key map                                                                 *)
(***************************************************************************)

\* sendkeys.py, _build_key_map(): base_symbols
base_symbols ==
    DictOf(<<
        <<Ord("-"), Chars(<<"0", "x", "2", "d">>)>>,
        <<Ord("="), Chars(<<"0", "x", "2", "e">>)>>,
        <<Ord("["), Chars(<<"0", "x", "2", "f">>)>>,
        <<Ord("]"), Chars(<<"0", "x", "3", "0">>)>>,
        <<Ord("\\"), Chars(<<"0", "x", "6", "4">>)>>,
        <<Ord(";"), Chars(<<"0", "x", "3", "3">>)>>,
        <<Ord("'"), Chars(<<"0", "x", "3", "4">>)>>,
        <<Ord(","), Chars(<<"0", "x", "3", "6">>)>>,
        <<Ord("."), Chars(<<"0", "x", "3", "7">>)>>,
        <<Ord("/"), Chars(<<"0", "x", "3", "8">>)>>,
        <<Ord("backtick"), Chars(<<"0", "x", "3", "5">>)>> >>)

\* shift_pairs: unshifted symbol -> the symbol Shift gives on the same key
shift_pairs ==
    DictOf(<<
        <<Ord("-"), Ord("_")>>, <<Ord("="), Ord("+")>>, <<Ord("["), Ord("{")>>,
        <<Ord("]"), Ord("}")>>, <<Ord("\\"), Ord("|")>>, <<Ord(";"), Ord(":")>>,
        <<Ord("'"), Ord("\"")>>, <<Ord(","), Ord("<")>>, <<Ord("."), Ord(">")>>,
        <<Ord("/"), Ord("?")>>, <<Ord("backtick"), Ord("~")>> >>)

\* The "0xe1 " every shifted entry starts with.
ShiftPrefix == Chars(<<"0", "x", "e", "1", " ">>)

\* a-z: {chr(c): f"0x{c - 93:02x}" for c in range(97, 123)}
km_lower == [c \in 97..122 |-> Format0x02x(c - 93)]

\* The capital letters without the Shift token.
km_upper_unshifted == [c \in 65..90 |-> Format0x02x(c - 61)]

\* A-Z: {chr(c): f"0xe1 0x{c - 61:02x}" for c in range(65, 91)}
km_upper == [c \in 65..90 |-> ShiftPrefix \o Format0x02x(c - 61)]

\* The digit row with the literal entry for "0" left out.
km_numbers_without_zero ==
    DictOf([i \in 1..9 |-> <<Str(i)[1], Format0x02x(29 + i)>>])

\* Numbers 1-0: {str(i): f"0x{0x1d + i:02x}" for i in range(1, 10)}, "0": "0x27"
km_numbers ==
    Merge(DictOf([i \in 1..9 |-> <<Str(i)[1], Format0x02x(29 + i)>>]),
          DictOf(<< <<Ord("0"), Chars(<<"0", "x", "2", "7">>)>> >>))

\* The shifted digit row zipped with range(0, 10) in the place of range(1, 11).
km_shifted_numbers_from_zero ==
    LET symbols == Chars(<<"!", "@", "#", "$", "%", "^", "&", "*", "(", ")">>)
    IN  DictOf([i \in 1..10 |-> <<symbols[i], ShiftPrefix \o Format0x02x(29 + i - 1)>>])

\* Shifted numbers: {s: f"0xe1 0x{0x1d + i:02x}" for s, i in zip("!@#$%^&*()", range(1, 11))}
km_shifted_numbers ==
    LET symbols == Chars(<<"!", "@", "#", "$", "%", "^", "&", "*", "(", ")">>)
    IN  DictOf([i \in 1..10 |-> <<symbols[i], ShiftPrefix \o Format0x02x(29 + i)>>])

\* Shifted symbols: {shift_pairs[k]: f"0xe1 {v}" for k, v in base_symbols.items()
\* if k in shift_pairs}.  The items are taken in code point order here; the
\* keys produced are distinct, so the order decides nothing.
km_shifted_symbols ==
    LET keys == DOMAIN base_symbols \cap DOMAIN shift_pairs
        nth(n) == CHOOSE x \in keys : Cardinality({y \in keys : y < x}) = n - 1
    IN  DictOf([n \in 1..Cardinality(keys) |->
                   <<shift_pairs[nth(n)], ShiftPrefix \o base_symbols[nth(n)]>>])

\* Space and controls
km_controls ==
    DictOf(<<
        <<Ord(" "), Chars(<<"0", "x", "2", "c">>)>>,
        <<Ord("\n"), Chars(<<"0", "x", "2", "8">>)>>,
        <<Ord("\t"), Chars(<<"0", "x", "2", "b">>)>> >>)

\* key_map_str: the sub-dicts merged in the order they are written.
key_map_str ==
    Merge(Merge(Merge(Merge(Merge(Merge(km_lower, km_upper), km_numbers),
        km_shifted_numbers), base_symbols), km_shifted_symbols), km_controls)

\* _build_key_map(): every value split into its list of tokens.
build_key_map == [char \in DOMAIN key_map_str |-> Split(key_map_str[char])]

\* sendkeys.py: KEY_MAP = _build_key_map()
KEY_MAP == build_key_map

\* sendkeys_gui.py _build_key_map(): the same construction, written out
\* again in the GUI module.
build_key_map_gui ==
    LET base_symbols_gui == DictOf(<<
            <<Ord("-"), Chars(<<"0", "x", "2", "d">>)>>,
            <<Ord("="), Chars(<<"0", "x", "2", "e">>)>>,
            <<Ord("["), Chars(<<"0", "x", "2", "f">>)>>,
            <<Ord("]"), Chars(<<"0", "x", "3", "0">>)>>,
            <<Ord("\\"), Chars(<<"0", "x", "6", "4">>)>>,
            <<Ord(";"), Chars(<<"0", "x", "3", "3">>)>>,
            <<Ord("'"), Chars(<<"0", "x", "3", "4">>)>>,
            <<Ord(","), Chars(<<"0", "x", "3", "6">>)>>,
            <<Ord("."), Chars(<<"0", "x", "3", "7">>)>>,
            <<Ord("/"), Chars(<<"0", "x", "3", "8">>)>>,
            <<Ord("backtick"), Chars(<<"0", "x", "3", "5">>)>> >>)
        shift_pairs_gui == DictOf(<<
            <<Ord("-"), Ord("_")>>, <<Ord("="), Ord("+")>>, <<Ord("["), Ord("{")>>,
            <<Ord("]"), Ord("}")>>, <<Ord("\\"), Ord("|")>>, <<Ord(";"), Ord(":")>>,
            <<Ord("'"), Ord("\"")>>, <<Ord(","), Ord("<")>>, <<Ord("."), Ord(">")>>,
            <<Ord("/"), Ord("?")>>, <<Ord("backtick"), Ord("~")>> >>)
        shift == Chars(<<"0", "x", "e", "1", " ">>)
        shifted_digits == Chars(<<"!", "@", "#", "$", "%", "^", "&", "*", "(", ")">>)
        lower == [c \in 97..122 |-> Format0x02x(c - 93)]
        upper == [c \in 65..90 |-> shift \o Format0x02x(c - 61)]
        numbers ==
            Merge(DictOf([i \in 1..9 |-> <<Str(i)[1], Format0x02x(29 + i)>>]),
                  DictOf(<< <<Ord("0"), Chars(<<"0", "x", "2", "7">>)>> >>))
        shifted_numbers ==
            DictOf([i \in 1..10 |-> <<shifted_digits[i], shift \o Format0x02x(29 + i)>>])
        shifted_symbols ==
            DictOf([n \in 1..Cardinality(DOMAIN base_symbols_gui \cap DOMAIN shift_pairs_gui) |->
                LET keys == DOMAIN base_symbols_gui \cap DOMAIN shift_pairs_gui
                    k == CHOOSE x \in keys : Cardinality({y \in keys : y < x}) = n - 1
                IN  <<shift_pairs_gui[k], shift \o base_symbols_gui[k]>>])
        controls == DictOf(<<
            <<Ord(" "), Chars(<<"0", "x", "2", "c">>)>>,
            <<Ord("\n"), Chars(<<"0", "x", "2", "8">>)>>,
            <<Ord("\t"), Chars(<<"0", "x", "2", "b">>)>> >>)
        key_map_str_gui ==
            Merge(Merge(Merge(Merge(Merge(Merge(lower, upper), numbers),
                shifted_numbers), base_symbols_gui), shifted_symbols), controls)
    IN  [char \in DOMAIN key_map_str_gui |-> Split(key_map_str_gui[char])]

\* sendkeys_gui.py: KEY_MAP = _build_key_map()
KEY_MAP_GUI == build_key_map_gui

(***************************************************************************)
(* Utility functions                                                       *)
(***************************************************************************)

\* What running an external command can come to: the program is started
\* and exits with status 0 ("ok") or another status ("nonzero"), having
\* written out to its standard output; or what it wrote is not text in the
\* locale's encoding ("undecodable"), whatever its exit status; or the
\* program named first in the argument list (sudo) cannot be started, and
\* subprocess raises an OSError such as FileNotFoundError ("oserror").
CmdResult(kind, out) == [kind |-> kind, out |-> out]

\* The outcome of a call: it returns val, raises exc, or ends the process
\* through sys.exit (SystemExit).
Return(v) == [kind |-> "return", val |-> v, exc |-> "none"]
Raise(e, filler) == [kind |-> "raise", val |-> filler, exc |-> e]
Exit(filler) == [kind |-> "exit", val |-> filler, exc |-> "SystemExit"]

\* Text mode of subprocess (text=True): every "\r\n" and every lone "\r"
\* the command wrote is read as "\n".
RECURSIVE UniversalNewlines(_)
UniversalNewlines(s) ==
    IF s = <<>> THEN <<>>
    ELSE IF Head(s) = 13
         THEN <<10>> \o UniversalNewlines(IF Len(s) > 1 /\ s[2] = 10
                                          THEN Tail(Tail(s)) ELSE Tail(s))
         ELSE <<Head(s)>> \o UniversalNewlines(Tail(s))

\* run_cmd(cmd): check_output(cmd, text=True, ...).strip(); only
\* CalledProcessError (a non-zero exit status) is caught and turned into "".
\* The output is decoded before the exit status is looked at.
run_cmd(res) ==
    CASE res.kind = "ok" -> Return(Strip(UniversalNewlines(res.out)))
      [] res.kind = "nonzero" -> Return(<<>>)
      [] res.kind = "undecodable" -> Raise("UnicodeDecodeError", <<>>)
      [] OTHER -> Raise("FileNotFoundError", <<>>)

\* get_domains(): the second token of every line after the first two that
\* has at least two tokens.
get_domains(res) ==
    LET output == run_cmd(res)
    IN  IF output.kind # "return" THEN output
        ELSE LET all == SplitLines(output.val)
                 lines == SubSeq(all, 3, Len(all))
                 keep == {i \in 1..Len(lines) : Len(Split(lines[i])) > 1}
                 nth(n) == CHOOSE i \in keep : Cardinality({j \in keep : j < i}) = n - 1
             IN  Return([n \in 1..Cardinality(keep) |-> Split(lines[nth(n)])[2]])

\* validate_choice(choice, max_choice)
validate_choice(choice, max_choice) ==
    IF ~IsDigit(choice) THEN Exit(0 - 1)
    ELSE LET n == IntParse(choice)
         IN  IF n.kind = "raise" THEN Raise(n.val, 0 - 1)
             ELSE IF ~(1 <= n.val /\ n.val <= max_choice) THEN Exit(0 - 1)
             ELSE Return(n.val - 1)

(***************************************************************************)
(* State                                                                   *)
(***************************************************************************)

VARIABLES
    call,       \* the function applied on its own: name, arguments, done
    ret,        \* what that call came to
    cli,        \* sendkeys.py main(): its locals, its position, its exit status
    cli_out,    \* what main() has done to the outside while on the current
                \* input line: key injections, sleeps, debug prints
    gui,        \* sendkeys_gui.py VirshKeySenderGUI: widgets and worker_thread
    workers,    \* the KeySenderThread objects, by the order of their creation
    sigq        \* signals emitted by workers, queued for the interface thread

fnVars == <<call, ret>>
cliVars == <<cli, cli_out>>
guiVars == <<gui, workers, sigq>>
vars == <<call, ret, cli, cli_out, gui, workers, sigq>>

\* Values of the variables of a part that is not running.
NoCall == [fn |-> "none", done |-> TRUE]
Pending == [kind |-> "pending", val |-> <<>>, exc |-> "none"]
FnIdle == call = NoCall /\ ret = Pending

(***************************************************************************)
(* Inputs                                                                  *)
(***************************************************************************)

\* Longest listing output, longest selection typed, largest domain count.
MaxOutLen == 6
MaxChoiceLen == 2
MaxCount == 2

\* All strings over an alphabet up to a length.
Strings(alphabet, n) == UNION {[1..k -> alphabet] : k \in 0..n}

\* Listing outputs: every text of newlines, blanks, a letter and a dash,
\* and one listing as virsh prints it.
OutAlphabet == {Ord("\n"), Ord(" "), Ord("a"), Ord("-")}
SampleListing ==
    Chars(<<" ", "I", "d", " ", " ", "N", "a", "m", "e", " ", " ", "S", "t", "a", "t", "e", "\n",
            "-", "-", "-", "-", "-", "-", "-", "-", "-", "-", "-", "-", "-", "-", "-", "-", "\n",
            " ", "1", " ", " ", " ", "v", "m", "1", " ", " ", "r", "u", "n", "n", "i", "n", "g", "\n",
            " ", "-", " ", " ", " ", "v", "m", "2", " ", " ", "s", "h", "u", "t", " ", "o", "f", "f", "\n",
            "\n">>)
\* The same two domains, written with "\r\n" line ends and one lone "\r".
SampleListingCrLf ==
    Chars(<<"I", "d", " ", "N", "a", "m", "e", "\r", "\n", "-", "-", "-", "\r", "\n",
            "1", " ", "v", "m", "1", " ", "u", "p", "\r",
            "-", " ", "v", "m", "2", " ", "o", "f", "f", "\r", "\n">>)
ListingResults ==
    {CmdResult("ok", out) :
        out \in Strings(OutAlphabet, MaxOutLen) \cup {SampleListing, SampleListingCrLf}}
        \cup {CmdResult("nonzero", <<>>), CmdResult("undecodable", <<>>),
              CmdResult("oserror", <<>>)}

\* Selections typed: digits, a letter, a minus sign, a blank and the
\* superscript two (code point 178: a digit to str.isdigit(), not to int()).
ChoiceAlphabet == {Ord("0"), Ord("1"), Ord("2"), Ord("3"), Ord("a"), Ord("-"), 178}

(***************************************************************************)
(* sendkeys.py: the command line program                                   *)
(***************************************************************************)

\* Longest input text drawn from TextAlphabet.
MaxTextLen == 2

\* Input text: a letter, the space, and e-acute (code point 233), which
\* KEY_MAP does not have; and the line "Hi there".
TextAlphabet == {Ord("a"), Ord(" "), 233}
HiThere == Chars(<<"H", "i", " ", "t", "h", "e", "r", "e">>)
Texts == Strings(TextAlphabet, MaxTextLen)

\* What the listing command comes to when it is run by either program.
ListingSamples ==
    {CmdResult("ok", SampleListing), CmdResult("ok", SampleListingCrLf),
     CmdResult("ok", Chars(<<" ", "I", "d", " ", "N", "a", "m", "e", "\n", "-", "-", "-", "\n">>)),
     CmdResult("nonzero", <<>>), CmdResult("undecodable", <<>>),
     CmdResult("oserror", <<>>)}

\* What the operator types at the prompts.
DebugTyped == {Chars(<<"Y">>), Chars(<<"n">>)}
ChoiceTyped == Strings(ChoiceAlphabet, 1) \cup {Chars(<<" ", "2", " ">>)}
NumberTyped ==
    {<<>>, Chars(<<"0">>), Chars(<<"1", "_", "0">>), Chars(<<"-", "5">>), Chars(<<"x">>)}

\* Standard input at its end (Ctrl+D, a closed pipe): no line is there to
\* be read.  It is no string, so it is written as a sequence no string is.
EndOfInput == <<0 - 1>>

\* What one virsh send-key invocation comes to: exit status 0, a non-zero
\* exit status, or sudo cannot be started (subprocess.run raises OSError).
SendResults == {"rc0", "rc1", "oserror"}

\* str.lower() of a string of code points below 256: the ASCII capitals and
\* the Latin-1 capitals (192..222 without the multiplication sign, 215) move
\* up by 32; every other character is kept.
Lower(s) ==
    [i \in 1..Len(s) |->
        IF s[i] \in Ord("A")..Ord("Z") \/ s[i] \in ((192..222) \ {215})
        THEN s[i] + 32 ELSE s[i]]

\* input(msg): the line typed, or EOFError at the end of standard input.
input(typed) ==
    IF typed = EndOfInput THEN Raise("EOFError", <<>>) ELSE Return(typed)

\* prompt(msg, default): input(...).strip(), or the default ("" for None);
\* the EOFError of input() passes through.
prompt(typed, default) ==
    LET value == input(typed)
    IN  IF value.kind = "raise" THEN value
        ELSE IF Strip(value.val) # <<>> THEN Return(Strip(value.val))
        ELSE Return(IF default.isNone THEN <<>> ELSE default.val)

\* ms / 1000, kept as an exact fraction of seconds.
Seconds(ms) == [num |-> ms, den |-> 1000]
NoSeconds == [num |-> 0, den |-> 1]

\* The character a for loop over text takes after i characters, from the
\* far end of the text.
CharAtFromEnd(text, i) == text[Len(text) - i]

\* for char in text: the character taken after i characters.
CharAt(text, i) == text[i + 1]

\* A test for the letter "a" in the place of the test for the space.
PauseAfterLetter(char) == char = Ord("a")

\* sendkeys.py: if char == " "
PauseAfter(char) == char = Ord(" ")

\* subprocess.run(cmd, ..., check=check): OSError when the program cannot be
\* started; CalledProcessError on a non-zero exit status if check is set;
\* otherwise the exit status is returned (and not looked at by the caller).
subprocess_run(res, check) ==
    IF res = "oserror" THEN Raise("FileNotFoundError", 0)
    ELSE IF check /\ res # "rc0" THEN Raise("CalledProcessError", 1)
    ELSE Return(IF res = "rc0" THEN 0 ELSE 1)

\* send_keys() with check=True.
send_keys_checked(res) == subprocess_run(res, TRUE)

\* sendkeys.py send_keys(): subprocess.run(cmd, stdout=DEVNULL, stderr=DEVNULL, check=False)
send_keys(res) == subprocess_run(res, FALSE)

\* The fixed words of the command send_keys() builds:
\* ["sudo", "virsh", "send-key", domain, "--codeset", "usb"] + key_sequence
\* + ["--holdtime", holdtime_str]
SendKeyWords ==
    <<Chars(<<"s", "u", "d", "o">>), Chars(<<"v", "i", "r", "s", "h">>),
      Chars(<<"s", "e", "n", "d", "-", "k", "e", "y">>)>>
CodesetWords ==
    <<Chars(<<"-", "-", "c", "o", "d", "e", "s", "e", "t">>), Chars(<<"u", "s", "b">>)>>
HoldtimeWord == <<Chars(<<"-", "-", "h", "o", "l", "d", "t", "i", "m", "e">>)>>

\* An argument list that leaves the hold time to virsh's default.
send_keys_cmd_without_holdtime(domain, key_sequence, holdtime_str) ==
    SendKeyWords \o <<domain>> \o CodesetWords \o key_sequence

\* The argument list send_keys() builds.
send_keys_cmd(domain, key_sequence, holdtime_str) ==
    SendKeyWords \o <<domain>> \o CodesetWords \o key_sequence
    \o HoldtimeWord \o <<holdtime_str>>

\* Things done to the outside, each with the position idx in the text of the
\* character char it is done for: a virsh send-key invocation (argument list
\* and exit status), a sleep (its length), a debug print.
SendEvent(idx, char, argv, rc) ==
    [ev |-> "send", idx |-> idx, char |-> char, argv |-> argv, rc |-> rc, dur |-> NoSeconds]
SleepEvent(idx, char, dur) ==
    [ev |-> "sleep", idx |-> idx, char |-> char, argv |-> <<>>, rc |-> 0, dur |-> dur]
PrintEvent(what, idx, char) ==
    [ev |-> what, idx |-> idx, char |-> char, argv |-> <<>>, rc |-> 0, dur |-> NoSeconds]

CliStart ==
    [pc |-> "get_domains", domains |-> <<>>, debug |-> FALSE, selected_domain |-> <<>>,
     holdtime |-> 0, pause_time_ms |-> 0, holdtime_str |-> <<>>,
     pause_time_sec |-> NoSeconds, user_input |-> <<>>, i |-> 0,
     key_sequence |-> NoneVal, exit_status |-> 0 - 1]
CliIdle == cli = [CliStart EXCEPT !.pc = "none"] /\ cli_out = <<>>

\* The process ends: sys.exit(message) and an uncaught exception end it
\* with status 1, sys.exit(0) with status 0.
CliEnd(pc, status) == [cli EXCEPT !.pc = pc, !.exit_status = status]

\* domains = get_domains(); if not domains: sys.exit(...)
CliGetDomains ==
    /\ cli.pc = "get_domains"
    /\ \E res \in ListingSamples :
         LET r == get_domains(res)
         IN  cli' = IF r.kind = "raise" THEN CliEnd("crashed", 1)
                    ELSE IF r.val = <<>> THEN CliEnd("exited", 1)
                    ELSE [cli EXCEPT !.pc = "debug", !.domains = r.val]
    /\ UNCHANGED <<cli_out, fnVars, guiVars>>

\* debug = prompt("Enable debug mode? (y/n): ").lower() == "y"
\* An EOFError out of prompt() is caught nowhere and ends the process.
CliPromptDebug ==
    /\ cli.pc = "debug"
    /\ \E typed \in DebugTyped \cup {EndOfInput} :
         LET p == prompt(typed, NoneVal)
         IN  cli' = IF p.kind = "raise" THEN CliEnd("crashed", 1)
                    ELSE [cli EXCEPT !.pc = "select",
                                     !.debug = (Lower(p.val) = Chars(<<"y">>))]
    /\ UNCHANGED <<cli_out, fnVars, guiVars>>

\* selected_domain = domains[validate_choice(prompt("Select domain #: "), len(domains))]
CliSelectDomain ==
    /\ cli.pc = "select"
    /\ \E typed \in ChoiceTyped \cup {EndOfInput} :
         LET p == prompt(typed, NoneVal)
             r == IF p.kind = "raise" THEN p
                  ELSE validate_choice(p.val, Len(cli.domains))
         IN  cli' = CASE r.kind = "exit" -> CliEnd("exited", 1)
                      [] r.kind = "raise" -> CliEnd("crashed", 1)
                      [] OTHER -> [cli EXCEPT !.pc = "holdtime",
                                              !.selected_domain = cli.domains[r.val + 1]]
    /\ UNCHANGED <<cli_out, fnVars, guiVars>>

\* holdtime = int(prompt("Key press hold time in ms (default 100): ", "100"))
CliPromptHoldtime ==
    /\ cli.pc = "holdtime"
    /\ \E typed \in NumberTyped \cup {EndOfInput} :
         LET p == prompt(typed, Some(Chars(<<"1", "0", "0">>)))
             r == IF p.kind = "raise" THEN p ELSE IntParse(p.val)
         IN  cli' = IF r.kind = "raise" THEN CliEnd("crashed", 1)
                    ELSE [cli EXCEPT !.pc = "pause", !.holdtime = r.val]
    /\ UNCHANGED <<cli_out, fnVars, guiVars>>

\* pause_time_ms = int(prompt("Pause after space in ms (default 300): ", "300"))
\* holdtime_str = str(holdtime); pause_time_sec = pause_time_ms / 1000
CliPromptPause ==
    /\ cli.pc = "pause"
    /\ \E typed \in NumberTyped \cup {EndOfInput} :
         LET p == prompt(typed, Some(Chars(<<"3", "0", "0">>)))
             r == IF p.kind = "raise" THEN p ELSE IntParse(p.val)
         IN  cli' = IF r.kind = "raise" THEN CliEnd("crashed", 1)
                    ELSE [cli EXCEPT !.pc = "read", !.pause_time_ms = r.val,
                                     !.holdtime_str = Str(cli.holdtime),
                                     !.pause_time_sec = Seconds(r.val)]
    /\ UNCHANGED <<cli_out, fnVars, guiVars>>

\* user_input = input("Enter text: "); if not user_input: continue
\* EOFError is not the KeyboardInterrupt the try block catches: it ends the
\* process.
CliReadLine ==
    /\ cli.pc = "read"
    /\ \E typed \in Texts \cup {HiThere, EndOfInput} :
         LET user_input == input(typed)
         IN  IF user_input.kind = "raise"
             THEN /\ cli' = CliEnd("crashed", 1)
                  /\ UNCHANGED cli_out
             ELSE /\ cli' = [cli EXCEPT !.pc = IF user_input.val = <<>> THEN "read" ELSE "char",
                                        !.user_input = user_input.val, !.i = 0,
                                        !.key_sequence = NoneVal]
                  /\ cli_out' = <<>>
    /\ UNCHANGED <<fnVars, guiVars>>

\* for char in user_input: key_sequence = KEY_MAP.get(char); an unsupported
\* character is skipped (and reported in debug mode)
CliNextChar ==
    /\ cli.pc = "char"
    /\ IF cli.i = Len(cli.user_input)
       THEN /\ cli' = [cli EXCEPT !.pc = "read"]
            /\ UNCHANGED cli_out
       ELSE LET char == CharAt(cli.user_input, cli.i)
                key_sequence == DictGet(KEY_MAP, char)
            IN  IF ~Truthy(key_sequence)
                THEN /\ cli' = [cli EXCEPT !.i = cli.i + 1, !.key_sequence = key_sequence]
                     /\ cli_out' = IF cli.debug
                                   THEN Append(cli_out, PrintEvent("print_unsupported", cli.i + 1, char))
                                   ELSE cli_out
                ELSE /\ cli' = [cli EXCEPT !.pc = "send", !.key_sequence = key_sequence]
                     /\ UNCHANGED cli_out
    /\ UNCHANGED <<fnVars, guiVars>>

\* send_keys(selected_domain, char, holdtime_str, key_sequence, debug_info):
\* prints debug_info if there is one, runs the command with check=False, so
\* its exit status is not looked at; then, after a space, goes on to sleep.
CliSendKeys ==
    /\ cli.pc = "send"
    /\ \E res \in SendResults :
         LET char == CharAt(cli.user_input, cli.i)
             printed == IF cli.debug
                        THEN Append(cli_out, PrintEvent("print_sending", cli.i + 1, char))
                        ELSE cli_out
             argv == send_keys_cmd(cli.selected_domain, cli.key_sequence.val,
                                   cli.holdtime_str)
             r == send_keys(res)
         IN  IF r.kind = "raise"
             THEN /\ cli' = CliEnd("crashed", 1)
                  /\ cli_out' = IF r.exc = "FileNotFoundError" THEN printed
                                ELSE Append(printed, SendEvent(cli.i + 1, char, argv, r.val))
             ELSE /\ cli_out' = Append(printed, SendEvent(cli.i + 1, char, argv, r.val))
                  /\ cli' = IF PauseAfter(char)
                            THEN [cli EXCEPT !.pc = "sleep"]
                            ELSE [cli EXCEPT !.pc = "char", !.i = cli.i + 1]
    /\ UNCHANGED <<fnVars, guiVars>>

\* if char == " ": time.sleep(pause_time_sec); a negative length makes
\* time.sleep raise ValueError
CliSleep ==
    /\ cli.pc = "sleep"
    /\ LET char == CharAt(cli.user_input, cli.i)
           printed == IF cli.debug
                      THEN Append(cli_out, PrintEvent("print_pausing", cli.i + 1, char))
                      ELSE cli_out
       IN  IF cli.pause_time_sec.num < 0
           THEN /\ cli' = CliEnd("crashed", 1)
                /\ cli_out' = printed
           ELSE /\ cli' = [cli EXCEPT !.pc = "char", !.i = cli.i + 1]
                /\ cli_out' = Append(printed, SleepEvent(cli.i + 1, char, cli.pause_time_sec))
    /\ UNCHANGED <<fnVars, guiVars>>

\* The return code of a command that subprocess.run killed because an
\* exception reached it while it waited (minus the number of SIGKILL).
Killed == 0 - 9

\* What main() has done to the outside when Ctrl+C reaches it in the middle
\* of a step: in send_keys() before the debug line, after it, or while
\* subprocess.run waits for the started command, which it then kills; at the
\* pause before the debug line, or after it with the sleep cut short.
InterruptedOut ==
    LET char == CharAt(cli.user_input, cli.i)
    IN  CASE cli.pc = "send" ->
               LET printed == IF cli.debug
                              THEN Append(cli_out, PrintEvent("print_sending", cli.i + 1, char))
                              ELSE cli_out
                   argv == send_keys_cmd(cli.selected_domain, cli.key_sequence.val,
                                         cli.holdtime_str)
               IN  {cli_out, printed, Append(printed, SendEvent(cli.i + 1, char, argv, Killed))}
          [] cli.pc = "sleep" ->
               {cli_out,
                IF cli.debug
                THEN Append(cli_out, PrintEvent("print_pausing", cli.i + 1, char))
                ELSE cli_out}
          [] OTHER -> {cli_out}

\* Ctrl+C: inside the try block of the input loop KeyboardInterrupt is caught
\* and the process exits with status 0; before it, the exception is not
\* caught and the interpreter ends the process as killed by SIGINT (128 + 2).
CliInterrupt ==
    /\ cli.pc \in {"get_domains", "debug", "select", "holdtime", "pause",
                   "read", "char", "send", "sleep"}
    /\ cli' = IF cli.pc \in {"read", "char", "send", "sleep"}
              THEN CliEnd("exited", 0)
              ELSE CliEnd("interrupted", 130)
    /\ cli_out' \in InterruptedOut
    /\ UNCHANGED <<fnVars, guiVars>>

CliNext ==
    \/ CliGetDomains \/ CliPromptDebug \/ CliSelectDomain
    \/ CliPromptHoldtime \/ CliPromptPause
    \/ CliReadLine \/ CliNextChar \/ CliSendKeys \/ CliSleep
    \/ CliInterrupt


(***************************************************************************)
(* sendkeys_gui.py: the window and its worker thread                       *)
(***************************************************************************)

\* Number of KeySenderThread objects there is room for at a time.
MaxWorkers == 2

\* What the two spin boxes (hold time and pause, 0..5000 each) and the debug
\* box hold at a click on Send: the defaults, or zeros with debug mode on.
GuiSettings == {<<100, 300, FALSE>>, <<0, 0, TRUE>>}

\* What the text box holds at a Send click: every text over TextAlphabet up
\* to a length, and two longer ones, a space before a letter and a letter
\* twice.
MaxGuiTextLen == 1
GuiTexts ==
    Strings(TextAlphabet, MaxGuiTextLen)
        \cup {<<Ord(" "), Ord("a")>>, <<Ord("a"), Ord("a")>>}

\* run_cmd(cmd) of sendkeys_gui.py
run_cmd_gui(res) ==
    CASE res.kind = "ok" -> Return(Strip(UniversalNewlines(res.out)))
      [] res.kind = "nonzero" -> Return(<<>>)
      [] res.kind = "undecodable" -> Raise("UnicodeDecodeError", <<>>)
      [] OTHER -> Raise("FileNotFoundError", <<>>)

\* get_domains() of sendkeys_gui.py
get_domains_gui(res) ==
    LET output == run_cmd_gui(res)
    IN  IF output.kind # "return" THEN output
        ELSE LET all == SplitLines(output.val)
                 lines == SubSeq(all, 3, Len(all))
                 keep == {i \in 1..Len(lines) : Len(Split(lines[i])) > 1}
                 nth(n) == CHOOSE i \in keep : Cardinality({j \in keep : j < i}) = n - 1
             IN  Return([n \in 1..Cardinality(keep) |-> Split(lines[nth(n)])[2]])

\* sendkeys_gui.py: if char == " "
PauseAfterGui(char) == char = Ord(" ")

\* sendkeys_gui.py send_keys(): subprocess.run(cmd, ..., check=False)
send_keys_gui(res) == subprocess_run(res, FALSE)

\* The fixed words of the command send_keys() of sendkeys_gui.py builds.
SendKeyWordsGui ==
    <<Chars(<<"s", "u", "d", "o">>), Chars(<<"v", "i", "r", "s", "h">>),
      Chars(<<"s", "e", "n", "d", "-", "k", "e", "y">>)>>
CodesetWordsGui ==
    <<Chars(<<"-", "-", "c", "o", "d", "e", "s", "e", "t">>), Chars(<<"u", "s", "b">>)>>
HoldtimeWordGui == <<Chars(<<"-", "-", "h", "o", "l", "d", "t", "i", "m", "e">>)>>

\* The argument list send_keys() of sendkeys_gui.py builds.
send_keys_cmd_gui(domain, key_sequence, holdtime_str) ==
    SendKeyWordsGui \o <<domain>> \o CodesetWordsGui \o key_sequence
    \o HoldtimeWordGui \o <<holdtime_str>>

\* The combo box item that stands for an empty listing.
NoDomainsItem ==
    Chars(<<"(", "N", "o", " ", "d", "o", "m", "a", "i", "n", "s", " ",
            "f", "o", "u", "n", "d", ")">>)

\* A line of the output area, a queued signal, an open message box.
Msg(what, idx, char) == [what |-> what, idx |-> idx, char |-> char]
Signal(sig, w, msg) == [sig |-> sig, w |-> w, msg |-> msg]
NoMsg == Msg("none", 0, 0)

\* A KeySenderThread.  state is "none" before the object exists, "running"
\* from start() until the thread has ended, then "ended".  out is what run()
\* has done to the outside.  stop_len, stop_pc and stop_i record, for the
\* properties, where run() was when stop() first cleared the flag.
NoWorker ==
    [state |-> "none", domain |-> <<>>, text |-> <<>>, holdtime |-> 0,
     pause_time |-> NoSeconds, debug |-> FALSE, is_running |-> FALSE,
     pc |-> "none", i |-> 0, holdtime_str |-> <<>>, key_sequence |-> NoneVal,
     out |-> <<>>, stop_len |-> 0 - 1, stop_pc |-> "none", stop_i |-> 0]

\* KeySenderThread.__init__ followed by start()
KeySenderThread(domain, text, holdtime, pause_time, debug) ==
    [NoWorker EXCEPT !.state = "running", !.domain = domain, !.text = text,
                     !.holdtime = holdtime, !.pause_time = Seconds(pause_time),
                     !.debug = debug, !.is_running = TRUE, !.pc = "run"]

\* QThread.isRunning()
isRunning(w) == workers[w].state = "running"

GuiNone ==
    [state |-> "none", crash |-> "none", items |-> <<>>,
     output_text |-> <<>>, send_btn |-> TRUE, stop_btn |-> FALSE,
     worker_thread |-> 0, dialogs |-> <<>>]
GuiIdle == gui = GuiNone /\ workers = [w \in 1..MaxWorkers |-> NoWorker] /\ sigq = <<>>

\* What the listing command comes to when the window runs it: a listing of
\* one domain, a listing of none, and the three failures.
OneDomainListing ==
    Chars(<<" ", "I", "d", " ", "N", "a", "m", "e", " ", "S", "t", "a", "t", "e", "\n",
            "-", "-", "-", "\n",
            " ", "1", " ", "v", "m", "1", " ", "r", "u", "n", "n", "i", "n", "g", "\n">>)
GuiListingSamples ==
    {CmdResult("ok", OneDomainListing),
     CmdResult("ok", Chars(<<" ", "I", "d", " ", "N", "a", "m", "e", "\n", "-", "-", "-", "\n">>)),
     CmdResult("nonzero", <<>>), CmdResult("undecodable", <<>>),
     CmdResult("oserror", <<>>)}

\* What get_domains() comes to for these.
GetDomainsOutcomes == {get_domains_gui(res) : res \in GuiListingSamples}

\* An exception that leaves the constructor or a slot ends the process, and
\* with it the window.
Crashed(exc) == [GuiNone EXCEPT !.state = "crashed", !.crash = exc]

\* refresh_domains() from the return of its get_domains() call, with domains
\* what the call comes to: the cleared combo box is filled; an empty listing
\* puts the placeholder item in it and a warning in the output area.  has_output says whether
\* self.output_text exists yet: the constructor calls refresh_domains()
\* before it creates the output area, so there the warning raises
\* AttributeError.
refresh_domains(g, domains, has_output) ==
    IF domains.kind = "raise" THEN Crashed(domains.exc)
        ELSE IF domains.val = <<>>
             THEN IF has_output
                  THEN [g EXCEPT !.items = <<NoDomainsItem>>,
                                 !.output_text = <<Msg("no_domains_found", 0, 0)>>]
                  ELSE Crashed("AttributeError")
             ELSE [g EXCEPT !.items = domains.val]

\* VirshKeySenderGUI.__init__: worker_thread = None, the first
\* refresh_domains(), Send enabled, Stop disabled.
GuiInit ==
    /\ \E domains \in GetDomainsOutcomes :
         gui = refresh_domains([GuiNone EXCEPT !.state = "open"], domains, FALSE)
    /\ workers = [w \in 1..MaxWorkers |-> NoWorker]
    /\ sigq = <<>>
    /\ FnIdle /\ CliIdle

\* The operator can act on the window: it is open and no message box is up.
GuiReady == gui.state = "open" /\ gui.dialogs = <<>>

\* The Refresh button (never disabled), whether or not a transmission is
\* under way: refresh_domains() up to its call of get_domains().  The combo
\* box is cleared, and the thread of the window waits for the listing
\* command: until that ends it handles no click and delivers no signal,
\* while a running KeySenderThread goes on.
GuiRefreshClick ==
    /\ GuiReady
    /\ gui' = [gui EXCEPT !.items = <<>>, !.state = "listing"]
    /\ UNCHANGED <<workers, sigq, fnVars, cliVars>>

\* The listing command has ended: the rest of refresh_domains().  An
\* exception that leaves the slot ends the process, which takes its thread
\* objects and its queued signals with it.
GuiRefreshReturn ==
    /\ gui.state = "listing"
    /\ \E domains \in GetDomainsOutcomes :
         /\ gui' = refresh_domains([gui EXCEPT !.state = "open"], domains, TRUE)
         /\ workers' = IF gui'.state = "crashed"
                       THEN [w \in 1..MaxWorkers |-> NoWorker] ELSE workers
         /\ sigq' = IF gui'.state = "crashed" THEN <<>> ELSE sigq
    /\ UNCHANGED <<fnVars, cliVars>>

\* The test send_text() never makes.
AlreadySendingNever == FALSE

\* send_text(): if self.worker_thread and self.worker_thread.isRunning()
AlreadySending == gui.worker_thread # 0 /\ isRunning(gui.worker_thread)

\* A test that takes every item of the combo box for a domain.
NoValidDomainNever(domain) == FALSE

\* send_text(): if domain == "(No domains found)"
NoValidDomain(domain) == domain = NoDomainsItem

\* send_text() with text in the text box, item number current selected in
\* the combo box, and settings in the two spin boxes and the debug box.
send_text(text, current, settings) ==
    LET domain == gui.items[current]
        holdtime == settings[1]
        pause_time == settings[2]
        debug == settings[3]
        \* where the new object is put: the first place not held by a thread
        \* still running (the object worker_thread named before is dropped by
        \* the assignment, and freed unless its thread runs)
        free == {w \in 1..MaxWorkers : workers[w].state # "running"}
        new == CHOOSE w \in free : \A v \in free : w <= v
    IN  IF AlreadySending
        THEN /\ gui' = [gui EXCEPT !.dialogs = Append(@, "already_sending")]
             /\ UNCHANGED workers
        ELSE IF text = <<>>
        THEN /\ gui' = [gui EXCEPT !.dialogs = Append(@, "enter_text")]
             /\ UNCHANGED workers
        ELSE IF NoValidDomain(domain)
        THEN /\ gui' = [gui EXCEPT !.dialogs = Append(@, "no_valid_domain")]
             /\ UNCHANGED workers
        ELSE /\ free # {}
             /\ gui' = [gui EXCEPT !.output_text = <<Msg("starting", 0, 0)>>,
                                   !.send_btn = FALSE, !.stop_btn = TRUE,
                                   !.worker_thread = new]
             /\ workers' =
                  [w \in 1..MaxWorkers |->
                      IF w = new
                      THEN KeySenderThread(domain, text, holdtime, pause_time, debug)
                      ELSE IF workers[w].state = "ended" THEN NoWorker
                      ELSE workers[w]]

\* The Send button (clickable while enabled): send_text().  The text, the
\* combo box selection, the two spin boxes and the debug box are read as the
\* operator left them; of a widget send_text() returns without reading, one
\* content stands for all.
GuiSendClick ==
    /\ GuiReady /\ gui.send_btn
    /\ \E text \in (IF AlreadySending THEN {<<>>} ELSE GuiTexts) :
         \E current \in (IF AlreadySending \/ text = <<>>
                         THEN {1} ELSE 1..Len(gui.items)) :
           \E settings \in (IF AlreadySending \/ text = <<>>
                                \/ NoValidDomain(gui.items[current])
                             THEN {CHOOSE t \in GuiSettings : TRUE} ELSE GuiSettings) :
             send_text(text, current, settings)
    /\ UNCHANGED <<sigq, fnVars, cliVars>>

\* A loop that never looks at the flag.
StopRequestedNever(wk) == FALSE

\* run(): if not self._is_running: break
StopRequested(wk) == ~wk.is_running

\* KeySenderThread.stop(): self._is_running = False
stop(wk) ==
    [wk EXCEPT !.is_running = FALSE,
               !.stop_len = IF wk.stop_len < 0 THEN Len(wk.out) ELSE @,
               !.stop_pc = IF wk.stop_len < 0 THEN wk.pc ELSE @,
               !.stop_i = IF wk.stop_len < 0 THEN wk.i ELSE @]

\* The Stop button (clickable while enabled): stop_sending().  It stays
\* enabled until on_finished, so it can be clicked again for a thread that
\* has been told to stop: stop() clears the cleared flag again and one more
\* line is added to the output area.
GuiStopClick ==
    /\ GuiReady /\ gui.stop_btn
    /\ IF gui.worker_thread # 0 /\ isRunning(gui.worker_thread)
       THEN /\ workers' = [workers EXCEPT ![gui.worker_thread] = stop(@)]
            /\ gui' = [gui EXCEPT !.output_text = Append(@, Msg("stopping", 0, 0))]
       ELSE UNCHANGED <<gui, workers>>
    /\ UNCHANGED <<sigq, fnVars, cliVars>>

\* The Clear button (never disabled): clear_output()
GuiClearClick ==
    /\ GuiReady
    /\ gui' = [gui EXCEPT !.output_text = <<>>]
    /\ UNCHANGED <<workers, sigq, fnVars, cliVars>>

\* The operator closes a message box.
GuiDismissDialog ==
    /\ gui.state = "open" /\ gui.dialogs # <<>>
    /\ gui' = [gui EXCEPT !.dialogs = SubSeq(@, 1, Len(@) - 1)]
    /\ UNCHANGED <<workers, sigq, fnVars, cliVars>>

\* The event loop (also the one a message box runs) delivers the oldest
\* queued signal to its slot: on_progress, on_error or on_finished.
GuiDeliver ==
    /\ gui.state = "open" /\ sigq # <<>>
    /\ LET s == Head(sigq)
       IN  gui' = CASE s.sig = "progress" ->
                         [gui EXCEPT !.output_text = Append(@, s.msg)]
                    [] s.sig = "error" ->
                         [gui EXCEPT !.output_text = Append(@, s.msg),
                                     !.dialogs = Append(@, "error")]
                    [] OTHER ->
                         [gui EXCEPT !.send_btn = TRUE, !.stop_btn = FALSE]
    /\ sigq' = Tail(sigq)
    /\ UNCHANGED <<workers, fnVars, cliVars>>

\* run(): holdtime_str = str(self.holdtime)
WorkerRun(w) ==
    /\ workers[w].state = "running" /\ workers[w].pc = "run"
    /\ workers' = [workers EXCEPT ![w].holdtime_str = Str(workers[w].holdtime),
                                  ![w].pc = "loop"]
    /\ UNCHANGED <<gui, sigq, fnVars, cliVars>>

\* The head of the loop: the next character, if any; the stop flag; the look
\* up in KEY_MAP; an unsupported character is skipped (and reported in debug
\* mode); a supported one is announced in debug mode.
WorkerNextChar(w) ==
    LET wk == workers[w]
    IN  /\ wk.state = "running" /\ wk.pc = "loop"
        /\ IF wk.i = Len(wk.text) \/ StopRequested(wk)
           THEN /\ workers' = [workers EXCEPT ![w].pc = "after"]
                /\ UNCHANGED sigq
           ELSE LET char == CharAt(wk.text, wk.i)
                    key_sequence == DictGet(KEY_MAP_GUI, char)
                IN  IF ~Truthy(key_sequence)
                    THEN /\ workers' = [workers EXCEPT ![w].i = wk.i + 1,
                                                      ![w].key_sequence = key_sequence]
                         /\ sigq' = IF wk.debug
                                    THEN Append(sigq, Signal("progress", w,
                                                    Msg("unsupported", wk.i + 1, char)))
                                    ELSE sigq
                    ELSE /\ workers' = [workers EXCEPT ![w].pc = "send",
                                                      ![w].key_sequence = key_sequence]
                         /\ sigq' = IF wk.debug
                                    THEN Append(sigq, Signal("progress", w,
                                                    Msg("sending", wk.i + 1, char)))
                                    ELSE sigq
        /\ UNCHANGED <<gui, fnVars, cliVars>>

\* send_keys(self.domain, key_sequence, holdtime_str): the exit status is
\* not looked at; an exception is caught by run(), which emits error.  After
\* a space the pause is announced in debug mode.
WorkerSendKeys(w) ==
    LET wk == workers[w]
        char == CharAt(wk.text, wk.i)
        argv == send_keys_cmd_gui(wk.domain, wk.key_sequence.val, wk.holdtime_str)
    IN  /\ wk.state = "running" /\ wk.pc = "send"
        /\ \E res \in SendResults :
             LET r == send_keys_gui(res)
                 sent == Append(wk.out, SendEvent(wk.i + 1, char, argv, r.val))
             IN  IF r.kind = "raise"
                 THEN /\ workers' = [workers EXCEPT
                                       ![w].pc = "finally",
                                       ![w].out = IF r.exc = "FileNotFoundError"
                                                  THEN wk.out ELSE sent]
                      /\ sigq' = Append(sigq, Signal("error", w,
                                                     Msg("error", wk.i + 1, char)))
                 ELSE IF PauseAfterGui(char)
                 THEN /\ workers' = [workers EXCEPT ![w].out = sent,
                                                   ![w].pc = "sleep"]
                      /\ sigq' = IF wk.debug
                                 THEN Append(sigq, Signal("progress", w,
                                                 Msg("pausing", wk.i + 1, char)))
                                 ELSE sigq
                 ELSE /\ workers' = [workers EXCEPT ![w].out = sent,
                                                   ![w].pc = "loop",
                                                   ![w].i = wk.i + 1]
                      /\ UNCHANGED sigq
        /\ UNCHANGED <<gui, fnVars, cliVars>>

\* time.sleep(self.pause_time)
WorkerSleep(w) ==
    LET wk == workers[w]
    IN  /\ wk.state = "running" /\ wk.pc = "sleep"
        /\ workers' = [workers EXCEPT
                         ![w].out = Append(@, SleepEvent(wk.i + 1, CharAt(wk.text, wk.i),
                                                         wk.pause_time)),
                         ![w].pc = "loop", ![w].i = wk.i + 1]
        /\ UNCHANGED <<gui, sigq, fnVars, cliVars>>

\* After the loop: if self._is_running: self.progress.emit("Complete")
WorkerAfterLoop(w) ==
    LET wk == workers[w]
    IN  /\ wk.state = "running" /\ wk.pc = "after"
        /\ workers' = [workers EXCEPT ![w].pc = "finally"]
        /\ sigq' = IF wk.is_running
                   THEN Append(sigq, Signal("progress", w, Msg("complete", 0, 0)))
                   ELSE sigq
        /\ UNCHANGED <<gui, fnVars, cliVars>>

\* A run() that returns without the finished signal.
WorkerReturnsSilently(w) ==
    /\ workers[w].state = "running" /\ workers[w].pc = "finally"
    /\ workers' = [workers EXCEPT ![w].pc = "returned"]
    /\ UNCHANGED <<sigq, gui, fnVars, cliVars>>

\* finally: self.finished.emit()
WorkerFinally(w) ==
    /\ workers[w].state = "running" /\ workers[w].pc = "finally"
    /\ workers' = [workers EXCEPT ![w].pc = "returned"]
    /\ sigq' = Append(sigq, Signal("finished", w, NoMsg))
    /\ UNCHANGED <<gui, fnVars, cliVars>>

\* run() has returned; the thread ends, and isRunning() turns false.  Of an
\* ended thread the program reads nothing but isRunning(), so its other
\* fields are not kept.
WorkerEnd(w) ==
    /\ workers[w].state = "running" /\ workers[w].pc = "returned"
    /\ workers' = [workers EXCEPT ![w] = [NoWorker EXCEPT !.state = "ended"]]
    /\ UNCHANGED <<gui, sigq, fnVars, cliVars>>

WorkerNext ==
    \E w \in 1..MaxWorkers :
        \/ WorkerRun(w) \/ WorkerNextChar(w) \/ WorkerSendKeys(w) \/ WorkerSleep(w)
        \/ WorkerAfterLoop(w) \/ WorkerFinally(w) \/ WorkerEnd(w)

\* Stop can be clicked on a running thread without end, and every click adds
\* a line to the output area.  The behaviours looked at are those in which
\* the output area never holds more than MaxStopLines of these lines.
MaxStopLines == 2
StopLines(output_text) ==
    Cardinality({k \in 1..Len(output_text) : output_text[k].what = "stopping"})
OutputAreaBound == StopLines(gui.output_text) <= MaxStopLines

\* The steps of the window and its threads.  Only a Stop click adds a
\* Stopping line, so the bound on the output area is put on its steps.
GuiNext ==
    \/ GuiRefreshClick \/ GuiRefreshReturn \/ GuiSendClick
    \/ (GuiStopClick /\ OutputAreaBound')
    \/ GuiClearClick \/ GuiDismissDialog \/ GuiDeliver
    \/ WorkerNext

\* main() is entered.
CliInit == cli = CliStart /\ cli_out = <<>> /\ FnIdle /\ GuiIdle

SpecCli == CliInit /\ [][CliNext]_vars
SpecGui == GuiInit /\ [][GuiNext]_vars

\* Either program is run.
Init == CliInit \/ GuiInit
Next == CliNext \/ GuiNext
Spec == Init /\ [][Next]_vars

(***************************************************************************)
(* The functions applied on their own                                      *)
(***************************************************************************)

FnCalls ==
    {[fn |-> "get_domains", res |-> r, done |-> FALSE] : r \in ListingResults}
    \cup {[fn |-> "validate_choice", choice |-> c, max_choice |-> m, done |-> FALSE] :
            c \in Strings(ChoiceAlphabet, MaxChoiceLen), m \in 1..MaxCount}
    \cup {[fn |-> "KEY_MAP.get", module |-> m, char |-> c, done |-> FALSE] :
            m \in {"sendkeys", "sendkeys_gui"}, c \in 0..255}

FnInit == call \in FnCalls /\ ret = Pending /\ CliIdle /\ GuiIdle

CallGetDomains ==
    /\ call.fn = "get_domains" /\ ~call.done
    /\ ret' = get_domains(call.res)
    /\ call' = [call EXCEPT !.done = TRUE]
    /\ UNCHANGED <<cliVars, guiVars>>

CallValidateChoice ==
    /\ call.fn = "validate_choice" /\ ~call.done
    /\ ret' = validate_choice(call.choice, call.max_choice)
    /\ call' = [call EXCEPT !.done = TRUE]
    /\ UNCHANGED <<cliVars, guiVars>>

CallKeyMapGet ==
    /\ call.fn = "KEY_MAP.get" /\ ~call.done
    /\ ret' = Return(DictGet(IF call.module = "sendkeys" THEN KEY_MAP ELSE KEY_MAP_GUI,
                             call.char))
    /\ call' = [call EXCEPT !.done = TRUE]
    /\ UNCHANGED <<cliVars, guiVars>>

FnNext == CallGetDomains \/ CallValidateChoice \/ CallKeyMapGet

SpecFn == FnInit /\ [][FnNext]_vars

(***************************************************************************)
(* Properties of the functions applied on their own (SpecFn)               *)
(***************************************************************************)

GetDomainsDone == call.fn = "get_domains" /\ call.done
ValidateChoiceDone == call.fn = "validate_choice" /\ call.done
KeyMapGetDone == call.fn = "KEY_MAP.get" /\ call.done

\* C7: get_domains never raises to its caller; whenever the listing command
\* fails (non-zero exit status, or the command cannot be started) it returns
\* the empty list.
C7_GetDomainsNeverRaises ==
    GetDomainsDone =>
        /\ ret.kind = "return"
        /\ (call.res.kind # "ok" => ret.val = <<>>)

\* The positions of a line where a whitespace-separated token starts.
TokenStarts(line) ==
    {i \in 1..Len(line) : ~IsSpace(line[i]) /\ (i = 1 \/ IsSpace(line[i - 1]))}

\* The token that starts at position i.
TokenAt(line, i) ==
    SubSeq(line, i,
           CHOOSE j \in i..Len(line) :
               /\ \A k \in i..j : ~IsSpace(line[k])
               /\ (j = Len(line) \/ IsSpace(line[j + 1])))

SecondToken(line) ==
    TokenAt(line, CHOOSE i \in TokenStarts(line) :
                      Cardinality({j \in TokenStarts(line) : j < i}) = 1)

\* The lines of the listing as run_cmd hands it over.
ListingLines == SplitLines(Strip(call.res.out))

\* The second token of each line after the first two that has one, in order.
RowNames(lines) ==
    LET rows == {i \in 3..Len(lines) : Cardinality(TokenStarts(lines[i])) >= 2}
        nth(n) == CHOOSE i \in rows : Cardinality({j \in rows : j < i}) = n - 1
    IN  [n \in 1..Cardinality(rows) |-> SecondToken(lines[nth(n)])]

\* Two header lines (column titles, then a rule of dashes) and then rows of
\* at least an id and a name.
Conforms(lines) ==
    /\ Len(lines) >= 2
    /\ TokenStarts(lines[1]) # {}
    /\ lines[2] # <<>> /\ \A k \in 1..Len(lines[2]) : lines[2][k] = Ord("-")
    /\ \A i \in 3..Len(lines) : Cardinality(TokenStarts(lines[i])) >= 2

\* C8: for any listing output, get_domains returns the second token of each
\* line after the first two, in order; for output of fewer than 3 lines and
\* for any output that is not two header lines plus rows (output that is not
\* text at all included) it returns the empty list, and it does not raise.
C8_ParseAsClaimed ==
    (GetDomainsDone /\ call.res.kind \in {"ok", "undecodable"}) =>
        /\ ret.kind = "return"
        /\ (call.res.kind = "undecodable" => ret.val = <<>>)
        /\ (call.res.kind = "ok" =>
              /\ ret.val = RowNames(ListingLines)
              /\ ((Len(ListingLines) < 3 \/ ~Conforms(ListingLines)) => ret.val = <<>>))

\* A selection that is a decimal numeral (ASCII digits) of a number in 1..count.
IsNumeral(choice) == choice # <<>> /\ \A i \in 1..Len(choice) : IsAsciiDigit(choice[i])
InRange(choice, count) ==
    IsNumeral(choice) /\ 1 <= DigitsValue(choice) /\ DigitsValue(choice) <= count

\* C9: validate_choice returns n-1 for the numeral of an n in 1..count, and for
\* every other choice ends the run through sys.exit and returns no index.
C9_ValidateChoice ==
    ValidateChoiceDone =>
        IF InRange(call.choice, call.max_choice)
        THEN ret.kind = "return" /\ ret.val = DigitsValue(call.choice) - 1
        ELSE ret.kind = "exit"

\* The characters the table is to cover.
SupportedChars ==
    (Ord("a")..Ord("z")) \cup (Ord("A")..Ord("Z")) \cup (Ord("0")..Ord("9"))
    \cup {Ord(" "), Ord("\t"), Ord("\n")}
    \cup {Ord(c) : c \in {"-", "=", "[", "]", "\\", ";", "'", ",", ".", "/", "backtick"}}
    \cup {Ord(c) : c \in {"!", "@", "#", "$", "%", "^", "&", "*", "(", ")", "_", "+",
                          "{", "}", "|", ":", "\"", "<", ">", "?", "~"}}

\* "0x" and two hexadecimal digits.
IsHexByteToken(t) ==
    /\ Len(t) = 4
    /\ t[1] = Ord("0") /\ t[2] = Ord("x")
    /\ \A i \in 3..4 : t[i] \in {HexDigits[k] : k \in 1..16}

\* C10: the lookup of every supported character, in either module, finds a
\* non-empty sequence of "0x"-prefixed hexadecimal byte tokens, and the two
\* modules answer every lookup alike.
C10_KeyMapCovers ==
    KeyMapGetDone =>
        /\ call.char \in SupportedChars =>
              /\ ~ret.val.isNone
              /\ Len(ret.val.val) > 0
              /\ \A i \in 1..Len(ret.val.val) : IsHexByteToken(ret.val.val[i])
        /\ ret.val = DictGet(IF call.module = "sendkeys" THEN KEY_MAP_GUI ELSE KEY_MAP,
                             call.char)

\* C10 witness: the lookup of "0" in sendkeys.py has found its token.
C10_Witness ==
    /\ KeyMapGetDone /\ call.module = "sendkeys" /\ call.char = Ord("0")
    /\ ret.val = Some(<<Chars(<<"0", "x", "2", "7">>)>>)

----------------------------------------------------------------------------
\* What a dispatch loop has done to the outside

IsSend(e) == e.ev = "send"
IsSleep(e) == e.ev = "sleep"
IsEffect(e) == e.ev \in {"send", "sleep"}

\* The invocations and pauses in a log, without the debug prints.
Effects(out) == SelectSeq(out, IsEffect)

\* The position and character of each invocation in a log, in the order made.
Dispatched(out) ==
    LET s == SelectSeq(out, IsSend)
    IN  [k \in 1..Len(s) |-> <<s[k].idx, s[k].char>>]

\* The arguments of an invocation that name keys.
KeyTokens(argv) == SubSeq(argv, 7, Len(argv) - 2)

IsSupportedAt(pair) == pair[2] \in SupportedChars

\* The positions and characters of a text that are supported, in text order.
SupportedInOrder(text) ==
    SelectSeq([p \in 1..Len(text) |-> <<p, text[p]>>], IsSupportedAt)

IsPrefix(s, t) == Len(s) <= Len(t) /\ s = SubSeq(t, 1, Len(s))

\* The CLI has gone through all of a line and is back at the input prompt.
CliLineDone == cli.pc = "read" /\ cli.user_input # <<>>

\* The worker's loop has gone through all of its text.
WorkerLoopDone(w) ==
    /\ workers[w].state = "running"
    /\ workers[w].pc \in {"after", "finally", "returned"}
    /\ workers[w].i = Len(workers[w].text)

\* One invocation per dispatched character, with that character's keys.
OneCharEach(out, key_map) ==
    \A k \in 1..Len(out) :
        IsSend(out[k]) => Some(KeyTokens(out[k].argv)) = DictGet(key_map, out[k].char)

\* C1: at every moment the invocations made for a text are a prefix of its
\* supported characters in text order, each invocation carrying the keys of
\* its one character; and once the CLI loop or the GUI worker has gone
\* through the whole text, they are exactly those characters: none is
\* reordered, batched, duplicated or dropped.
C1_DispatchInInputOrder ==
    /\ cli.user_input # <<>> =>
          /\ IsPrefix(Dispatched(cli_out), SupportedInOrder(cli.user_input))
          /\ OneCharEach(cli_out, KEY_MAP)
    /\ CliLineDone => Dispatched(cli_out) = SupportedInOrder(cli.user_input)
    /\ \A w \in 1..MaxWorkers :
          /\ workers[w].state = "running" =>
                /\ IsPrefix(Dispatched(workers[w].out), SupportedInOrder(workers[w].text))
                /\ OneCharEach(workers[w].out, KEY_MAP_GUI)
          /\ WorkerLoopDone(w) =>
                Dispatched(workers[w].out) = SupportedInOrder(workers[w].text)

\* C1 witness: a worker has gone through " a" and invoked the command for
\* the space and then for the letter.
C1_Witness ==
    \E w \in 1..MaxWorkers :
        /\ WorkerLoopDone(w)
        /\ workers[w].text = <<Ord(" "), Ord("a")>>
        /\ Dispatched(workers[w].out) = <<<<1, Ord(" ")>>, <<2, Ord("a")>>>>

\* The pauses in a log of invocations and pauses are where they belong: each
\* follows at once the invocation for the same character, a space, and lasts
\* dur; and no invocation follows the invocation for a space directly.
PausesInPlace(eff, dur) ==
    \A k \in 1..Len(eff) :
        /\ IsSleep(eff[k]) =>
              /\ k > 1 /\ IsSend(eff[k - 1]) /\ eff[k - 1].idx = eff[k].idx
              /\ eff[k].char = Ord(" ")
              /\ eff[k].dur = dur
        /\ IsSend(eff[k]) /\ k > 1 /\ IsSend(eff[k - 1]) => eff[k - 1].char # Ord(" ")

Spaces(text) == Cardinality({p \in 1..Len(text) : text[p] = Ord(" ")})
Pauses(out) == Len(SelectSeq(out, IsSleep))

\* The pause a worker was started with, in milliseconds: that of the
\* settings its hold time and debug flag come from.
WorkerPauseMs(wk) ==
    LET s == CHOOSE t \in GuiSettings : t[1] = wk.holdtime /\ t[3] = wk.debug
    IN  s[2]

\* C2: a pause of the configured length follows at once the invocation for a
\* space, before the next character is dispatched, and nothing else is
\* followed by a pause; once the line has been gone through, there are as
\* many pauses as spaces in it.
C2_PauseAfterEachSpace ==
    /\ cli.user_input # <<>> =>
          PausesInPlace(Effects(cli_out), [num |-> cli.pause_time_ms, den |-> 1000])
    /\ CliLineDone => Pauses(cli_out) = Spaces(cli.user_input)
    /\ \A w \in 1..MaxWorkers :
          /\ workers[w].state = "running" =>
                PausesInPlace(Effects(workers[w].out),
                              [num |-> WorkerPauseMs(workers[w]), den |-> 1000])
          /\ WorkerLoopDone(w) => Pauses(workers[w].out) = Spaces(workers[w].text)

\* C2 witness: the CLI has gone through "Hi there": eight invocations and
\* one pause, the pause right after the third invocation.
C2_Witness ==
    /\ CliLineDone /\ cli.user_input = HiThere
    /\ Len(Dispatched(cli_out)) = 8 /\ Pauses(cli_out) = 1
    /\ IsSleep(Effects(cli_out)[4]) /\ Effects(cli_out)[4].idx = 3

\* The signals a step has put on the queue.
Emitted == SubSeq(sigq', Len(sigq) + 1, Len(sigq'))
NoErrorEmitted == \A k \in 1..Len(Emitted) : Emitted[k].sig # "error"

\* C3: no invocation and no pause is ever made for a character outside the
\* supported set; the step that takes such a character finds no key
\* sequence for it, does nothing to the outside, raises no error and leaves
\* the loop at the next character.
C3_UnsupportedSkipped ==
    /\ [](/\ \A k \in 1..Len(cli_out) :
                IsEffect(cli_out[k]) => cli_out[k].char \in SupportedChars
          /\ \A w \in 1..MaxWorkers : \A k \in 1..Len(workers[w].out) :
                workers[w].out[k].char \in SupportedChars)
    /\ [][/\ ( /\ cli.pc = "char" /\ cli.i < Len(cli.user_input)
               /\ CharAt(cli.user_input, cli.i) \notin SupportedChars
               /\ cli' # cli /\ cli'.pc # "exited" )
             => /\ cli'.key_sequence = NoneVal
                /\ cli'.pc = "char" /\ cli'.i = cli.i + 1
                /\ cli'.exit_status = 0 - 1
                /\ Effects(cli_out') = Effects(cli_out)
          /\ \A w \in 1..MaxWorkers :
               ( /\ workers[w].state = "running" /\ workers[w].pc = "loop"
                 /\ workers[w].is_running /\ workers[w].i < Len(workers[w].text)
                 /\ CharAt(workers[w].text, workers[w].i) \notin SupportedChars
                 /\ workers'[w] # workers[w] /\ workers'[w].is_running )
               => /\ workers'[w].key_sequence = NoneVal
                  /\ workers'[w].pc = "loop" /\ workers'[w].i = workers[w].i + 1
                  /\ workers'[w].out = workers[w].out
                  /\ NoErrorEmitted
         ]_vars

\* C3 witness: the CLI has gone through "éa": nothing for the "é", one
\* invocation, for the "a" after it.
C3_Witness ==
    /\ CliLineDone /\ cli.user_input = <<233, Ord("a")>>
    /\ Dispatched(cli_out) = <<<<2, Ord("a")>>>>
    /\ Pauses(cli_out) = 0

\* The last entry of a log is an invocation whose command exited with a
\* non-zero status (and was not killed by an interrupted subprocess.run).
EndsInFailedSend(out) ==
    out # <<>> /\ IsSend(out[Len(out)]) /\ out[Len(out)].rc \notin {0, Killed}

\* C4: the step in which an invocation ends with a non-zero status leaves
\* the loop going (at the next character, or at the pause after a space)
\* with no error raised or signalled; and a text gone through has had all
\* its supported characters dispatched, whatever the statuses were.
C4_NonZeroExitGoesOn ==
    /\ [](/\ CliLineDone => Len(Dispatched(cli_out)) = Len(SupportedInOrder(cli.user_input))
          /\ \A w \in 1..MaxWorkers :
                WorkerLoopDone(w) =>
                    Len(Dispatched(workers[w].out))
                        = Len(SupportedInOrder(workers[w].text)))
    /\ [][/\ ( Len(cli_out') > Len(cli_out) /\ EndsInFailedSend(cli_out') )
             => /\ cli'.pc \in {"char", "sleep"}
                /\ cli'.exit_status = 0 - 1
          /\ \A w \in 1..MaxWorkers :
               ( /\ Len(workers'[w].out) > Len(workers[w].out)
                 /\ EndsInFailedSend(workers'[w].out) )
               => /\ workers'[w].state = "running"
                  /\ workers'[w].pc \in {"loop", "sleep"}
                  /\ NoErrorEmitted
         ]_vars

\* C4 witness: a worker has gone through "aa" and returned; the first
\* invocation ended with status 1, the second was made all the same.
C4_Witness ==
    \E w \in 1..MaxWorkers :
        /\ WorkerLoopDone(w) /\ workers[w].pc = "returned"
        /\ workers[w].text = <<Ord("a"), Ord("a")>>
        /\ Len(workers[w].out) = 2
        /\ workers[w].out[1].rc = 1 /\ workers[w].out[2].rc = 0

Running == {w \in 1..MaxWorkers : workers[w].state = "running"}

\* C5: at most one worker thread runs at any time; a Send click while one
\* runs starts none, leaves every worker as it is, puts nothing on the
\* queue and shows the warning; and no step starts a worker or changes a
\* running worker's text or domain while a worker runs.
C5_OneWorkerAtATime ==
    /\ [](Cardinality(Running) <= 1)
    /\ [][/\ (Running # {} /\ GuiSendClick)
             => /\ workers' = workers
                /\ sigq' = sigq
                /\ gui' = [gui EXCEPT !.dialogs = Append(@, "already_sending")]
          /\ Running # {}
             => \A w \in 1..MaxWorkers :
                   workers'[w].state = "running"
                   => /\ workers[w].state = "running"
                      /\ workers'[w].text = workers[w].text
                      /\ workers'[w].domain = workers[w].domain
         ]_vars

\* C5 witness: the worker has emitted finished and the window has handled
\* it, so Send is enabled again, while the thread has not ended yet; a Send
\* click in that window has been answered with the warning.
C5_Witness ==
    /\ gui.dialogs = <<"already_sending">> /\ gui.send_btn
    /\ \E w \in Running : workers[w].pc = "returned"

\* C6: of what a worker does to the outside after stop() has cleared its
\* flag, everything is for the one character that was being dispatched
\* then: at most one invocation, and only if the flag had been checked for
\* it and the invocation not made yet; at most one pause, and only if that
\* character was being dispatched or paused for.
C6_StopEndsLoop ==
    \A w \in 1..MaxWorkers :
        LET wk == workers[w]
            later == SubSeq(wk.out, wk.stop_len + 1, Len(wk.out))
        IN  (wk.state = "running" /\ wk.stop_len >= 0) =>
                /\ ~wk.is_running
                /\ \A k \in 1..Len(later) : later[k].idx = wk.stop_i + 1
                /\ Len(SelectSeq(later, IsSend)) <= (IF wk.stop_pc = "send" THEN 1 ELSE 0)
                /\ Pauses(later) <= (IF wk.stop_pc \in {"send", "sleep"} THEN 1 ELSE 0)
                /\ wk.i <= wk.stop_i + 1

\* C6 witness: stop() came between the flag check for the first "a" of "aa"
\* and its invocation; that invocation was made, the loop then ended, and
\* the second "a" was not dispatched.
C6_Witness ==
    \E w \in 1..MaxWorkers :
        /\ workers[w].state = "running" /\ workers[w].pc = "returned"
        /\ workers[w].text = <<Ord("a"), Ord("a")>>
        /\ workers[w].stop_pc = "send" /\ workers[w].stop_len = 0
        /\ Dispatched(workers[w].out) = <<<<1, Ord("a")>>>>

----------------------------------------------------------------------------
\* The shape of the table's entries

UpperLetters == Ord("A")..Ord("Z")
ShiftedSymbols ==
    {Ord(c) : c \in {"!", "@", "#", "$", "%", "^", "&", "*", "(", ")", "_", "+",
                     "{", "}", "|", ":", "\"", "<", ">", "?", "~"}}
ShiftToken == Chars(<<"0", "x", "e", "1">>)

\* C11: a lookup that finds an entry finds, for a capital letter or a shifted
\* symbol, exactly two tokens of which the first is 0xe1, and for every
\* other character exactly one token, which is not 0xe1.
C11_TokenCounts ==
    (KeyMapGetDone /\ ~ret.val.isNone) =>
        IF call.char \in UpperLetters \cup ShiftedSymbols
        THEN Len(ret.val.val) = 2 /\ ret.val.val[1] = ShiftToken
        ELSE Len(ret.val.val) = 1 /\ ret.val.val[1] # ShiftToken

\* C11 witness: the lookup of "A" in sendkeys.py has found 0xe1 0x04.
C11_Witness ==
    /\ KeyMapGetDone /\ call.module = "sendkeys" /\ call.char = Ord("A")
    /\ ret.val = Some(<<ShiftToken, Chars(<<"0", "x", "0", "4">>)>>)

\* The character on the same key of the US keyboard without Shift, for the
\* characters typed with Shift.
SameKeyUnshifted ==
    LET shifted == Chars(<<"!", "@", "#", "$", "%", "^", "&", "*", "(", ")",
                           "_", "+", "{", "}", "|", ":", "\"", "<", ">", "?", "~">>)
        plain == Chars(<<"1", "2", "3", "4", "5", "6", "7", "8", "9", "0",
                         "-", "=", "[", "]", "\\", ";", "'", ",", ".", "/", "backtick">>)
    IN  [c \in UpperLetters \cup ShiftedSymbols |->
            IF c \in UpperLetters THEN c + 32
            ELSE plain[CHOOSE i \in 1..Len(shifted) : shifted[i] = c]]

\* The table of the module the call is made in.
CalledTable == IF call.module = "sendkeys" THEN KEY_MAP ELSE KEY_MAP_GUI

\* C17: the lookup of a character typed with Shift finds, as its second
\* token, the one token of the character on the same key without Shift; and
\* no other character of the table has the sequence a lookup has found.
C17_ShiftPairsAndDistinct ==
    (KeyMapGetDone /\ ~ret.val.isNone) =>
        /\ call.char \in UpperLetters \cup ShiftedSymbols =>
              LET plain == DictGet(CalledTable, SameKeyUnshifted[call.char])
              IN  /\ ~plain.isNone /\ Len(plain.val) = 1
                  /\ Len(ret.val.val) = 2
                  /\ ret.val.val[2] = plain.val[1]
        /\ \A other \in (0..255) \ {call.char} :
              DictGet(CalledTable, other) # ret.val

\* C17 witness: the lookup of ")" in sendkeys_gui.py has found 0xe1 and the
\* token of "0".
C17_Witness ==
    /\ KeyMapGetDone /\ call.module = "sendkeys_gui" /\ call.char = Ord(")")
    /\ ret.val = Some(<<ShiftToken, Chars(<<"0", "x", "2", "7">>)>>)
    /\ DictGet(KEY_MAP_GUI, Ord("0")) = Some(<<Chars(<<"0", "x", "2", "7">>)>>)

----------------------------------------------------------------------------
\* The argument list of an invocation

\* s is a decimal numeral of n: digits, after a minus sign if n is negative.
IsDecimalOf(s, n) ==
    LET neg == s # <<>> /\ s[1] = Ord("-")
        d == IF neg THEN Tail(s) ELSE s
    IN  /\ d # <<>>
        /\ \A k \in 1..Len(d) : IsAsciiDigit(d[k])
        /\ n = IF neg THEN 0 - DigitsValue(d) ELSE DigitsValue(d)

VirshSendKey ==
    <<Chars(<<"s", "u", "d", "o">>), Chars(<<"v", "i", "r", "s", "h">>),
      Chars(<<"s", "e", "n", "d", "-", "k", "e", "y">>)>>
CodesetOption == Chars(<<"-", "-", "c", "o", "d", "e", "s", "e", "t">>)
UsbCodeset == Chars(<<"u", "s", "b">>)
HoldtimeOption == Chars(<<"-", "-", "h", "o", "l", "d", "t", "i", "m", "e">>)

\* The argument list is sudo virsh send-key, the domain, the codeset usb,
\* the tokens of the character in table order, and the hold time.
ArgvAsClaimed(e, domain, key_map, holdtime) ==
    LET a == e.argv
        n == Len(a)
    IN  /\ n >= 9
        /\ SubSeq(a, 1, 3) = VirshSendKey
        /\ a[4] = domain
        /\ a[5] = CodesetOption
        /\ a[6] = UsbCodeset
        /\ e.char \in DOMAIN key_map /\ SubSeq(a, 7, n - 2) = key_map[e.char]
        /\ a[n - 1] = HoldtimeOption
        /\ IsDecimalOf(a[n], holdtime)

\* Two invocations for the same character in one log have the same arguments.
SameCharSameArgv(out) ==
    \A j, k \in 1..Len(out) :
        (IsSend(out[j]) /\ IsSend(out[k]) /\ out[j].char = out[k].char)
            => out[j].argv = out[k].argv

\* C12: the argument list of every invocation is made of the domain, the
\* codeset usb, the tokens of its character and the hold time in decimal,
\* and of nothing else; so two invocations for the same character under one
\* configuration are the same, whatever was dispatched before or between.
C12_ArgvFunctionOfConfig ==
    /\ \A k \in 1..Len(cli_out) :
          IsSend(cli_out[k]) =>
              ArgvAsClaimed(cli_out[k], cli.selected_domain, KEY_MAP, cli.holdtime)
    /\ SameCharSameArgv(cli_out)
    /\ \A w \in 1..MaxWorkers :
          /\ \A k \in 1..Len(workers[w].out) :
                IsSend(workers[w].out[k]) =>
                    ArgvAsClaimed(workers[w].out[k], workers[w].domain, KEY_MAP_GUI,
                                  workers[w].holdtime)
          /\ SameCharSameArgv(workers[w].out)

\* C12 witness: in "Hi there" the two invocations for "e", with the "r"
\* between them, have the same arguments, though one ended with status 0
\* and the other did not.
C12_Witness ==
    /\ CliLineDone /\ cli.user_input = HiThere
    /\ LET s == SelectSeq(cli_out, IsSend)
       IN  /\ Len(s) = 8
           /\ s[6].char = Ord("e") /\ s[8].char = Ord("e")
           /\ s[6].argv = s[8].argv
           /\ s[6].rc # s[8].rc

----------------------------------------------------------------------------
\* Send actions the window turns down

\* C13: a Send click with no text in the text box, or with the placeholder
\* of an empty listing selected, changes nothing but the dialogs, to which
\* it adds one: no worker is started, nothing is queued, the worker
\* reference, the buttons and the output area stay as they are, the window
\* stays open with Send enabled.
C13_SendTurnedDown ==
    [][( /\ GuiReady /\ gui.send_btn
         /\ \/ \E current \in 1..Len(gui.items), settings \in GuiSettings :
                  send_text(<<>>, current, settings)
            \/ \E current \in 1..Len(gui.items) :
                  /\ gui.items[current] = NoDomainsItem
                  /\ \E text \in GuiTexts, settings \in GuiSettings :
                        send_text(text, current, settings) )
       => /\ workers' = workers
          /\ sigq' = sigq
          /\ \E d \in {"enter_text", "no_valid_domain", "already_sending"} :
                gui' = [gui EXCEPT !.dialogs = Append(@, d)]
          /\ gui'.state = "open" /\ gui'.send_btn
      ]_vars

\* C13 witness: after a refresh that found no domain, a Send click with text
\* has been answered with the error dialog; no worker has ever been started.
C13_Witness ==
    /\ gui.state = "open" /\ gui.dialogs = <<"no_valid_domain">>
    /\ gui.items = <<NoDomainsItem>>
    /\ gui.worker_thread = 0 /\ gui.send_btn /\ ~gui.stop_btn
    /\ \A w \in 1..MaxWorkers : workers[w].state = "none"

----------------------------------------------------------------------------
\* How the command line program ends

\* C14 as claimed: an interrupt ends the program with status 0 wherever it
\* arrives; and when the listing has no domain or the selection is turned
\* down the program ends with a status other than 0, no key injected.
C14_ExitStatuses ==
    [][/\ CliInterrupt => cli'.exit_status = 0
       /\ ( /\ cli.pc \in {"get_domains", "select"}
            /\ cli'.exit_status # 0 - 1
            /\ ~CliInterrupt )
          => /\ cli'.exit_status # 0
             /\ Dispatched(cli_out') = <<>>
      ]_vars

\* The command line program is going through a line.
CliDispatching == cli.pc \in {"char", "send", "sleep"}

\* The hold time argument of an invocation.
HoldtimeArg(e) == e.argv[Len(e.argv)]

\* A decimal numeral of a number that is not negative.
IsNonNegativeDecimal(x) == x # <<>> /\ \A k \in 1..Len(x) : IsAsciiDigit(x[k])

\* C15 as claimed: the hold time handed to every invocation and the pause
\* of every pause made or about to be made are non-negative whole numbers
\* of milliseconds, and neither changes while a line is gone through or a
\* worker runs.
C15_ConfigWellFormedAndFixed ==
    /\ [](/\ \A k \in 1..Len(cli_out) :
                /\ IsSend(cli_out[k]) => IsNonNegativeDecimal(HoldtimeArg(cli_out[k]))
                /\ IsSleep(cli_out[k]) => cli_out[k].dur.num >= 0
          /\ CliDispatching => cli.holdtime >= 0 /\ cli.pause_time_ms >= 0
          /\ \A w \in 1..MaxWorkers :
                /\ \A k \in 1..Len(workers[w].out) :
                      LET e == workers[w].out[k]
                      IN  /\ IsSend(e) => IsNonNegativeDecimal(HoldtimeArg(e))
                          /\ IsSleep(e) => e.dur.num >= 0
                /\ workers[w].state = "running" =>
                      workers[w].holdtime >= 0 /\ workers[w].pause_time.num >= 0)
    /\ [][/\ (CliDispatching /\ CliDispatching')
             => /\ cli'.holdtime = cli.holdtime
                /\ cli'.pause_time_ms = cli.pause_time_ms
                /\ cli'.selected_domain = cli.selected_domain
                /\ cli'.debug = cli.debug
          /\ \A w \in 1..MaxWorkers :
                (workers[w].state = "running" /\ workers'[w].state = "running")
                => /\ workers'[w].holdtime = workers[w].holdtime
                   /\ workers'[w].pause_time = workers[w].pause_time
                   /\ workers'[w].domain = workers[w].domain
                   /\ workers'[w].debug = workers[w].debug
         ]_vars

----------------------------------------------------------------------------
\* The end of a worker's run

\* C16: as long as the process lives, a run emits finished in the step that
\* ends run(), once, and nothing after it; every run gets there, whether the
\* text was gone through, the flag stopped the loop or a dispatch raised;
\* "Complete" is emitted only after the loop, with the flag still set; the
\* slot of finished enables Send and disables Stop; and Stop is never
\* enabled while Send is.
C16_FinishedOnceAndLast ==
    /\ [](gui.stop_btn => ~gui.send_btn)
    /\ [][gui'.state # "crashed" =>
          /\ \A w \in 1..MaxWorkers :
               /\ (workers[w].pc = "finally" /\ workers'[w].pc = "returned")
                  => Emitted = <<Signal("finished", w, NoMsg)>>
               /\ (workers[w].state = "running" /\ workers'[w].state # "running")
                  => workers[w].pc = "returned"
               /\ (workers[w].pc # "returned" /\ workers'[w].pc = "returned")
                  => workers[w].pc = "finally"
          /\ Len(sigq') > Len(sigq) =>
               \A k \in 1..Len(Emitted) :
                  LET e == Emitted[k]
                  IN  /\ workers[e.w].state = "running" /\ workers[e.w].pc # "returned"
                      /\ e.sig = "finished" => workers[e.w].pc = "finally"
                      /\ e.msg.what = "complete" =>
                            workers[e.w].pc = "after" /\ workers[e.w].is_running
          /\ (sigq # <<>> /\ sigq' = Tail(sigq) /\ Head(sigq).sig = "finished")
             => gui'.send_btn /\ ~gui'.stop_btn
         ]_vars

\* C16 witness: a dispatch has raised in a worker that was not stopped; the
\* worker has emitted error and then finished, and run() is about to return.
C16_Witness ==
    \E w \in 1..MaxWorkers :
        /\ workers[w].state = "running" /\ workers[w].pc = "returned"
        /\ workers[w].is_running /\ workers[w].i < Len(workers[w].text)
        /\ Len(sigq) = 2
        /\ sigq[1].sig = "error" /\ sigq[1].w = w
        /\ sigq[2] = Signal("finished", w, NoMsg)
        /\ gui.stop_btn /\ ~gui.send_btn

====
